---- MODULE Spec2Model ----
(***************************************************************************)
(* Model of pdfreport.py (mahadevbk/Photoreport): a Streamlit script that  *)
(* keeps a list of page records in st.session_state, previews each with    *)
(* generate_thumbnail and renders the list with generate_pdf.              *)
(*                                                                         *)
(* One Streamlit interaction reruns the whole script with at most one      *)
(* button reading True, so every session action below is one script run    *)
(* with that button pressed.  generate_pdf is modelled step by step so     *)
(* that the life of its temporary files can be observed.                   *)
(*                                                                         *)
(* Python numbers produced by "/" are modelled as exact rationals          *)
(* [num, den] in lowest terms; IEEE rounding is not modelled.              *)
(***************************************************************************)
EXTENDS Integers, Sequences, FiniteSets, TLC

VARIABLES pages, edit_index, pc, page_num, i, tmp, files, pdf

vars == <<pages, edit_index, pc, page_num, i, tmp, files, pdf>>

(***************************************************************************)
(* Bounds of the model.                                                    *)
(***************************************************************************)
MaxPages == 2
MaxImages == 5
MaxLines == 11
MaxDim == 2
MaxFiles == 1

(***************************************************************************)
(* Exact rational arithmetic for Python's true division.                   *)
(***************************************************************************)
Abs(a) == IF a < 0 THEN -a ELSE a

RECURSIVE GCD(_, _)
GCD(a, b) == IF b = 0 THEN a ELSE GCD(b, a % b)

Frac(n, d) ==
    LET g == GCD(Abs(n), Abs(d))
        s == IF d < 0 THEN -1 ELSE 1
    IN  [num |-> (s * n) \div g, den |-> (s * d) \div g]

FInt(n) == [num |-> n, den |-> 1]
FAdd(a, b) == Frac(a.num * b.den + b.num * a.den, a.den * b.den)
FSub(a, b) == Frac(a.num * b.den - b.num * a.den, a.den * b.den)
FMul(a, b) == Frac(a.num * b.num, a.den * b.den)
FDiv(a, b) == Frac(a.num * b.den, a.den * b.num)
FLt(a, b) == a.num * b.den < b.num * a.den
FLe(a, b) == a.num * b.den <= b.num * a.den

Min(a, b) == IF a < b THEN a ELSE b

(***************************************************************************)
(* Text.  A str is a sequence of one-character strings.                    *)
(***************************************************************************)
IsSpace(c) == c \in {" ", "\n", "\r", "\t"}

\* str.strip(): drop leading and trailing whitespace
RECURSIVE lstrip(_)
lstrip(s) == IF s # <<>> /\ IsSpace(Head(s)) THEN lstrip(Tail(s)) ELSE s

RECURSIVE rstrip(_)
rstrip(s) ==
    IF s # <<>> /\ IsSpace(s[Len(s)]) THEN rstrip(SubSeq(s, 1, Len(s) - 1)) ELSE s

strip(s) == rstrip(lstrip(s))

\* str.splitlines(): "\n", "\r" and "\r\n" end a line; a final line break
\* opens no further line; "" has no lines
RECURSIVE SplitFrom(_, _, _)
SplitFrom(s, cur, started) ==
    IF s = <<>> THEN (IF started THEN <<cur>> ELSE <<>>)
    ELSE IF Head(s) = "\r" /\ Len(s) > 1 /\ s[2] = "\n"
         THEN <<cur>> \o SplitFrom(Tail(Tail(s)), <<>>, FALSE)
    ELSE IF Head(s) \in {"\n", "\r"}
         THEN <<cur>> \o SplitFrom(Tail(s), <<>>, FALSE)
    ELSE SplitFrom(Tail(s), Append(cur, Head(s)), TRUE)

splitlines(s) == SplitFrom(s, <<>>, FALSE)

(***************************************************************************)
(* Images.  An uploaded file is [w, h, kind]: its pixel size and what PIL  *)
(* does with it.                                                           *)
(*   "rgb"       opens, loads, saves as JPEG                               *)
(*   "rgba"      opens and loads; img.save(format="JPEG") raises           *)
(*   "truncated" Image.open succeeds, the first load (convert/save) raises *)
(*   "garbage"   Image.open raises                                         *)
(***************************************************************************)
Img(w, h, kind) == [w |-> w, h |-> h, kind |-> kind]

Undecodable == {"truncated", "garbage"}

\* Image.open(f) raises
OpenRaises(img) == img.kind = "garbage"

\* Image.open(f).convert("RGB") raises
ConvertRaises(img) == img.kind \in Undecodable

\* img.save(tmp, format="JPEG") raises
SaveRaises(img) == img.kind \in {"truncated", "rgba"}

None == -1

(***************************************************************************)
(* generate_thumbnail(page): the preview of one page record.  The result   *)
(* is [ok, pastes, lines]; ok = FALSE stands for the call raising.         *)
(***************************************************************************)
thumb_img_w == 140
thumb_img_h == 100
start_x == 10
start_y == 40
thumb_gap == 10

\* seq[:n]
Take(seq, n) == SubSeq(seq, 1, Min(n, Len(seq)))

generate_thumbnail(page) ==
    LET shown == Take(page.images, 4)
    IN  IF \E k \in 1..Len(shown) : ConvertRaises(shown[k])
        THEN [ok |-> FALSE, pastes |-> <<>>, lines |-> <<>>]
        ELSE [ok |-> TRUE,
              pastes |-> [k \in 1..Len(shown) |->
                            [i   |-> k - 1,
                             col |-> (k - 1) % 2,
                             row |-> (k - 1) \div 2,
                             x   |-> start_x + ((k - 1) % 2) * (thumb_img_w + thumb_gap),
                             y   |-> start_y + ((k - 1) \div 2) * (thumb_img_h + thumb_gap)]],
              lines |-> Take(splitlines(page.description), 6)]

(***************************************************************************)
(* The layout arithmetic of generate_pdf.  n is len(page["images"]) and k  *)
(* the 0-based index of an image.                                          *)
(***************************************************************************)
collage_width == 127
collage_height == 90
y_offset == 25
gap == 5
x_offset == (210 - collage_width) \div 2

\* a second row only from the fourth image on
rows_from_four(n) == IF n > 3 THEN 2 ELSE 1

rows(n) == IF n > 2 THEN 2 ELSE 1
cols(n) == IF n > 1 THEN 2 ELSE 1

img_w(n) == FDiv(FInt(collage_width - gap * (cols(n) - 1)), FInt(cols(n)))
img_h(n) == FDiv(FInt(collage_height - gap * (rows(n) - 1)), FInt(rows(n)))

cell_col(n, k) == k % cols(n)
cell_row(n, k) == k \div cols(n)
cell_x(n, k) == FAdd(FInt(x_offset), FMul(FAdd(img_w(n), FInt(gap)), FInt(cell_col(n, k))))
cell_y(n, k) == FAdd(FInt(y_offset), FMul(FAdd(img_h(n), FInt(gap)), FInt(cell_row(n, k))))

\* the comparison of line 156 turned round: the image covers the cell
contain_flipped(img, n) ==
    LET img_aspect == Frac(img.w, img.h)
        box_aspect == FDiv(img_w(n), img_h(n))
    IN  IF FLt(img_aspect, box_aspect)
        THEN [draw_w |-> img_w(n), draw_h |-> FDiv(img_w(n), img_aspect)]
        ELSE [draw_w |-> FMul(img_h(n), img_aspect), draw_h |-> img_h(n)]

\* lines 153-161, the "contain" fit of an image in a cell of a page of n
\* images: [draw_w, draw_h]
contain(img, n) ==
    LET img_aspect == Frac(img.w, img.h)
        box_aspect == FDiv(img_w(n), img_h(n))
    IN  IF FLt(box_aspect, img_aspect)
        THEN [draw_w |-> img_w(n), draw_h |-> FDiv(img_w(n), img_aspect)]
        ELSE [draw_w |-> FMul(img_h(n), img_aspect), draw_h |-> img_h(n)]

\* everything lines 147-166 compute for image k of a page, as handed to pdf.image
Placement(page, k) ==
    LET n   == Len(page.images)
        img == page.images[k + 1]
        fit == contain(img, n)
    IN  [i      |-> k,
         img    |-> img,
         col    |-> cell_col(n, k),
         row    |-> cell_row(n, k),
         x      |-> cell_x(n, k),
         y      |-> cell_y(n, k),
         cell_w |-> img_w(n),
         cell_h |-> img_h(n),
         draw_w |-> fit.draw_w,
         draw_h |-> fit.draw_h,
         draw_x |-> FAdd(cell_x(n, k), FDiv(FSub(img_w(n), fit.draw_w), FInt(2))),
         draw_y |-> FAdd(cell_y(n, k), FDiv(FSub(img_h(n), fit.draw_h), FInt(2)))]

\* lines 182-184: while len(lines) < 10: lines.append("")
RECURSIVE PadLines(_)
PadLines(lines) == IF Len(lines) < 10 THEN PadLines(Append(lines, <<>>)) ELSE lines

\* lines 182-186: the description rows printed on a page
DescriptionRows(description) == PadLines(splitlines(description))

(***************************************************************************)
(* Inputs.                                                                 *)
(***************************************************************************)
Kinds == {"rgb", "rgba", "truncated", "garbage"}

\* an upload of n files of which the last is of the given kind
Upload(n, kind) ==
    [j \in 1..n |-> IF j = n THEN Img(4, 3, kind) ELSE Img(4, 3, "rgb")]

\* what the session's uploaders are given: no file, a valid count, more than
\* four files, and files PIL cannot read or cannot save as JPEG
SessionUploads ==
    {Upload(n, "rgb") : n \in {0, 1, MaxImages - 2, MaxImages}}
    \cup {Upload(MaxImages, "garbage"), Upload(1, "garbage"), Upload(1, "rgba")}
Titles == {"Site A", "Site B"}
SessionTexts == {<<" ">>, <<"a">>}
Names == {<<" ">>, <<"P">>}

\* the images of the rendering runs: every pixel size up to MaxDim, the three
\* sizes whose aspect ratio is that of a cell, a file Image.open rejects and
\* one with an alpha channel
Catalogue ==
    [j \in 1..(MaxDim * MaxDim) |->
        Img(((j - 1) \div MaxDim) + 1, ((j - 1) % MaxDim) + 1, "rgb")]
    \o << Img(127, 90, "rgb"), Img(61, 90, "rgb"), Img(122, 85, "rgb"),
          Img(4, 3, "garbage"), Img(4, 3, "rgba") >>

Window(n, s) == [j \in 1..n |-> Catalogue[((s + j - 2) % Len(Catalogue)) + 1]]

\* k lines "a" joined by "\n"
Text(k) == [j \in 1..(IF k = 0 THEN 0 ELSE 2 * k - 1) |-> IF j % 2 = 1 THEN "a" ELSE "\n"]

Doc(m, n, s, k) ==
    [j \in 1..m |->
        [images      |-> Window(((n + j - 2) % MaxImages) + 1, s + j - 1),
         title       |-> "Site A",
         description |-> Text((k + j - 1) % (MaxLines + 1))]]

(***************************************************************************)
(* The script run around the handlers.                                     *)
(***************************************************************************)
\* the script is not running: it waits for the next interaction
Waiting == pc \in {"idle", "returned", "raised"}

\* line 90 of iteration k and all earlier ones did not raise, so the
\* buttons of iteration k are evaluated in this run
Reached(k) ==
    /\ k \in 0..(Len(pages) - 1)
    /\ \A j \in 0..k : generate_thumbnail(pages[j + 1]).ok

\* the loop of lines 87-111 ran to its end
LoopCompletes == \A j \in 1..Len(pages) : generate_thumbnail(pages[j]).ok

\* list.pop(k)
Pop(seq, k) == SubSeq(seq, 1, k) \o SubSeq(seq, k + 2, Len(seq))

\* a new run: the locals of the previous run are gone, the disk is not
NewRun ==
    /\ page_num' = 0
    /\ i' = 0
    /\ tmp' = None
    /\ pdf' = <<>>
    /\ UNCHANGED files

Init ==
    /\ pages = <<>>
    /\ edit_index = None
    /\ pc = "idle"
    /\ page_num = 0
    /\ i = 0
    /\ tmp = None
    /\ files = {}
    /\ pdf = <<>>

\* lines 30-42
AddPage(new_images, new_title, new_description) ==
    /\ Waiting
    /\ Len(pages) < MaxPages
    /\ IF ~(1 <= Len(new_images) /\ Len(new_images) <= 4)
       THEN UNCHANGED <<pages, edit_index>>
       ELSE IF strip(new_description) = <<>>
       THEN UNCHANGED <<pages, edit_index>>
       ELSE /\ pages' = Append(pages, [images      |-> new_images,
                                       title       |-> new_title,
                                       description |-> new_description])
            /\ edit_index' = None
    /\ pc' = "idle"
    /\ NewRun

\* lines 93-94
Edit(k) ==
    /\ Waiting
    /\ Reached(k)
    /\ edit_index' = k
    /\ UNCHANGED pages
    /\ pc' = "idle"
    /\ NewRun

\* lines 95-96 and 113-115; a later thumbnail that raises ends the run
\* before line 113
Delete(k) ==
    /\ Waiting
    /\ Reached(k)
    /\ pages' = IF LoopCompletes THEN Pop(pages, k) ELSE pages
    /\ UNCHANGED edit_index
    /\ pc' = "idle"
    /\ NewRun

\* lines 98-109
Save(k, edit_title, edit_description, edit_images) ==
    /\ Waiting
    /\ Reached(k)
    /\ edit_index = k
    /\ pages' = [pages EXCEPT ![k + 1] =
                    [images      |-> IF edit_images # <<>> THEN edit_images ELSE @.images,
                     title       |-> edit_title,
                     description |-> edit_description]]
    /\ edit_index' = None
    /\ pc' = "idle"
    /\ NewRun

\* lines 110-111
Cancel(k) ==
    /\ Waiting
    /\ Reached(k)
    /\ edit_index = k
    /\ edit_index' = None
    /\ UNCHANGED pages
    /\ pc' = "idle"
    /\ NewRun

\* lines 200-207: the button exists when the page list is not empty
Generate(project_name, username) ==
    /\ Waiting
    /\ LoopCompletes
    /\ pages # <<>>
    /\ Cardinality(files) < MaxFiles
    /\ pc' = IF strip(project_name) = <<>> \/ strip(username) = <<>>
             THEN "idle" ELSE "call"
    /\ UNCHANGED <<pages, edit_index>>
    /\ NewRun

(***************************************************************************)
(* generate_pdf(pages, ...), one step per statement group.                 *)
(***************************************************************************)
\* tempfile.NamedTemporaryFile: a name no existing file has
FreshName == CHOOSE n \in 0..Cardinality(files) : n \notin files

\* enumerate(pages) without start=1
Call_from_zero ==
    /\ pc = "call"
    /\ pdf' = <<>>
    /\ page_num' = 0
    /\ pc' = "page"
    /\ UNCHANGED <<pages, edit_index, i, tmp, files>>

\* lines 119-122
Call ==
    /\ pc = "call"
    /\ pdf' = <<>>
    /\ page_num' = 1
    /\ pc' = "page"
    /\ UNCHANGED <<pages, edit_index, i, tmp, files>>

\* position of the page being rendered in the list
Current == pages[Len(pdf)]

\* lines 122-141: next record of the list, pdf.add_page()
PageStart ==
    /\ pc = "page"
    /\ Len(pdf) < Len(pages)
    /\ pdf' = Append(pdf, [grid    |-> <<rows(Len(pages[Len(pdf) + 1].images)),
                                         cols(Len(pages[Len(pdf) + 1].images))>>,
                            images  |-> <<>>,
                            subject |-> <<>>,
                            rows    |-> <<>>,
                            footer  |-> <<>>])
    /\ i' = 0
    /\ pc' = "open"
    /\ UNCHANGED <<pages, edit_index, page_num, tmp, files>>

\* lines 143-144
ImgOpen ==
    /\ pc = "open"
    /\ i < Len(Current.images)
    /\ pc' = IF OpenRaises(Current.images[i + 1]) THEN "raised" ELSE "save"
    /\ UNCHANGED <<pages, edit_index, page_num, i, tmp, files, pdf>>

\* lines 145-146
ImgSave ==
    /\ pc = "save"
    /\ tmp' = FreshName
    /\ files' = files \cup {FreshName}
    /\ pc' = IF SaveRaises(Current.images[i + 1]) THEN "raised" ELSE "place"
    /\ UNCHANGED <<pages, edit_index, page_num, i, pdf>>

\* lines 147-167
ImgPlace ==
    /\ pc = "place"
    /\ pdf' = [pdf EXCEPT ![Len(pdf)].images = Append(@, Placement(Current, i))]
    /\ pc' = "remove"
    /\ UNCHANGED <<pages, edit_index, page_num, i, tmp, files>>

\* lines 169-170 left out
ImgRemove_kept ==
    /\ pc = "remove"
    /\ i' = i + 1
    /\ pc' = "open"
    /\ UNCHANGED <<pages, edit_index, page_num, tmp, files, pdf>>

\* lines 169-170
ImgRemove ==
    /\ pc = "remove"
    /\ files' = files \ {tmp}
    /\ i' = i + 1
    /\ pc' = "open"
    /\ UNCHANGED <<pages, edit_index, page_num, tmp, pdf>>

\* lines 172-195
PageText ==
    /\ pc = "open"
    /\ i = Len(Current.images)
    /\ pdf' = [pdf EXCEPT ![Len(pdf)] =
                  [@ EXCEPT !.subject = <<Current.title>>,
                            !.rows = DescriptionRows(Current.description),
                            !.footer = <<page_num>>]]
    /\ page_num' = page_num + 1
    /\ pc' = "page"
    /\ UNCHANGED <<pages, edit_index, i, tmp, files>>

\* line 197
Return ==
    /\ pc = "page"
    /\ Len(pdf) = Len(pages)
    /\ pc' = "returned"
    /\ UNCHANGED <<pages, edit_index, page_num, i, tmp, files, pdf>>

Render ==
    \/ Call
    \/ PageStart
    \/ ImgOpen
    \/ ImgSave
    \/ ImgPlace
    \/ ImgRemove
    \/ PageText
    \/ Return

Next ==
    \/ \E im \in SessionUploads, t \in Titles, d \in SessionTexts : AddPage(im, t, d)
    \/ \E k \in 0..(MaxPages - 1) : Edit(k)
    \/ \E k \in 0..(MaxPages - 1) : Delete(k)
    \/ \E k \in 0..(MaxPages - 1), im \in SessionUploads, t \in Titles, d \in SessionTexts :
          Save(k, t, d, im)
    \/ \E k \in 0..(MaxPages - 1) : Cancel(k)
    \/ \E p \in Names, u \in Names : Generate(p, u)
    \/ Render

Spec == Init /\ [][Next]_vars

(***************************************************************************)
(* generate_pdf alone: the call of line 207 on a page list the session can *)
(* hold when the button is pressed (every thumbnail was drawn).            *)
(***************************************************************************)
Docs ==
    {d \in {Doc(m, n, s, k) : m \in 0..MaxPages, n \in 1..MaxImages,
                              s \in 1..Len(Catalogue), k \in 0..MaxLines} :
        \A j \in 1..Len(d) : generate_thumbnail(d[j]).ok}

InitPdf ==
    /\ pages \in Docs
    /\ edit_index = None
    /\ pc = "call"
    /\ page_num = 0
    /\ i = 0
    /\ tmp = None
    /\ files = {}
    /\ pdf = <<>>

NextPdf == Render

SpecPdf == InitPdf /\ [][NextPdf]_vars

(***************************************************************************)
(* Properties.                                                             *)
(***************************************************************************)
\* the pages of the document whose text block has been printed
Printed == {j \in 1..Len(pdf) : pdf[j].footer # <<>>}

\* <<j, q>>: the q-th image placed on page j of the document
Placed == {jq \in (1..Len(pdf)) \X (1..MaxImages + 1) : jq[2] <= Len(pdf[jq[1]].images)}

PlacedAt(jq) == pdf[jq[1]].images[jq[2]]

HasUndecodable(page) ==
    \E q \in 1..Len(page.images) : page.images[q].kind \in Undecodable

\* C1: every printed page shows exactly 10 description rows: the first
\* min(k,10) of the k lines of the description in order, then blank rows;
\* lines after the 10th produce no row.
C1_TenRows ==
    \A j \in Printed :
        LET lines == splitlines(pages[j].description)
        IN  pdf[j].rows = [r \in 1..10 |-> IF r <= Len(lines) THEN lines[r] ELSE <<>>]

\* C2: in every reachable session state each page record holds between 1
\* and 4 images.
C2_ImageCount ==
    \A j \in 1..Len(pages) :
        1 <= Len(pages[j].images) /\ Len(pages[j].images) <= 4

\* C3: the document never has more pages than records, the j-th page is
\* rendered from the j-th record and prints page number j, and the returned
\* document has exactly one finished page per record.
C3_PageNumbers ==
    /\ Len(pdf) <= Len(pages)
    /\ \A j \in 1..Len(pdf) :
          /\ \A q \in 1..Len(pdf[j].images) :
                /\ q <= Len(pages[j].images)
                /\ pdf[j].images[q].img = pages[j].images[q]
                /\ pdf[j].images[q].i = q - 1
          /\ j \in Printed =>
                /\ pdf[j].footer = <<j>>
                /\ pdf[j].subject = <<pages[j].title>>
                /\ Len(pdf[j].images) = Len(pages[j].images)
          /\ j < Len(pdf) => j \in Printed
    /\ pc = "returned" => Len(pdf) = Len(pages) /\ Printed = 1..Len(pages)

\* C3 witness: a returned document of at least two pages made from
\* different records
C3_Witness ==
    /\ pc = "returned"
    /\ Len(pdf) >= 2
    /\ pages[1] # pages[2]
    /\ pdf[2].footer = <<2>>

\* C4: on a run in which nothing raised, at most one temporary file exists
\* at any point: the file of the image being placed, from its creation to
\* its removal; none exists between two images or when the call returns.
C4_TempFiles ==
    pc # "raised" =>
        /\ Cardinality(files) <= 1
        /\ pc \in {"place", "remove"} => files = {tmp}
        /\ pc \in {"call", "page", "open", "save", "returned"} => files = {}

\* C4 witness: the call returned after placing images on two pages, one of
\* them holding several images, and no file is left
C4_Witness ==
    /\ pc = "returned"
    /\ Len(pdf) >= 2
    /\ Len(pdf[1].images) >= 2
    /\ Len(pdf[2].images) >= 1
    /\ files = {}

\* C5: for a record of n images, n in 1..4, the grid is (1,1), (1,2), (2,2),
\* (2,2); every image lies in a cell of the grid and no two share a cell;
\* with n = 3 the finished page fills every cell but (row 1, col 1).
C5_Grid ==
    \A j \in 1..Len(pdf) :
        LET n     == Len(pages[j].images)
            cells == {<<pdf[j].images[q].row, pdf[j].images[q].col>> :
                         q \in 1..Len(pdf[j].images)}
        IN  n \in 1..4 =>
              /\ pdf[j].grid = CASE n = 1 -> <<1, 1>>
                                 [] n = 2 -> <<1, 2>>
                                 [] n = 3 -> <<2, 2>>
                                 [] n = 4 -> <<2, 2>>
              /\ cells \subseteq (0..(pdf[j].grid[1] - 1)) \X (0..(pdf[j].grid[2] - 1))
              /\ Cardinality(cells) = Len(pdf[j].images)
              /\ (j \in Printed /\ n = 3) =>
                    cells = ((0..1) \X (0..1)) \ {<<1, 1>>}

\* C5 witness: a finished page of a record with three images
C5_Witness ==
    \E j \in Printed : Len(pages[j].images) = 3 /\ Len(pdf[j].images) = 3

\* the fit of a placed image stays in its cell and keeps the aspect ratio
FitsCell(p) ==
    /\ FLe(p.draw_w, p.cell_w)
    /\ FLe(p.draw_h, p.cell_h)
    /\ FDiv(p.draw_w, p.draw_h) = Frac(p.img.w, p.img.h)

C7_DecodeAborts ==
    /\ \A j \in 1..Len(pages) :
          HasUndecodable(pages[j]) => ~generate_thumbnail(pages[j]).ok
    /\ pc = "returned" => \A j \in 1..Len(pages) : ~HasUndecodable(pages[j])
    /\ \A jq \in Placed : PlacedAt(jq).img.kind \notin Undecodable

\* C8: in a returned document every page holds the same images, each in the
\* same (row, column) cell, as the thumbnail of its record.
C8_SameGrid ==
    pc = "returned" =>
        \A j \in 1..Len(pages) :
            LET pastes == generate_thumbnail(pages[j]).pastes
            IN  {<<pastes[q].i, pastes[q].row, pastes[q].col>> : q \in 1..Len(pastes)}
                = {<<pdf[j].images[q].i, pdf[j].images[q].row, pdf[j].images[q].col>> :
                      q \in 1..Len(pdf[j].images)}

\* the cells of two placed images share no area
Apart(p, q) ==
    \/ FLe(FAdd(p.x, p.cell_w), q.x)
    \/ FLe(FAdd(q.x, q.cell_w), p.x)
    \/ FLe(FAdd(p.y, p.cell_h), q.y)
    \/ FLe(FAdd(q.y, q.cell_h), p.y)

\* C9: the cell of every placed image lies inside the collage region of
\* width 127 and height 90 at (x_offset, y_offset), and the cells of two
\* images of a page do not overlap.
C9_CellsInside ==
    \A j \in 1..Len(pdf) :
        \A a \in 1..Len(pdf[j].images) :
            LET p == pdf[j].images[a]
            IN  /\ FLe(FInt(x_offset), p.x)
                /\ FLe(FAdd(p.x, p.cell_w), FInt(x_offset + collage_width))
                /\ FLe(FInt(y_offset), p.y)
                /\ FLe(FAdd(p.y, p.cell_h), FInt(y_offset + collage_height))
                /\ \A b \in 1..Len(pdf[j].images) :
                      a # b => Apart(p, pdf[j].images[b])

\* C10: after every script run edit_index is None or an index of the page
\* list, and while no Edit button sets it anew it goes on designating the
\* same record.
C10_EditIndex ==
    [][ edit_index' # None =>
          /\ edit_index' \in 0..(Len(pages') - 1)
          /\ (edit_index' = edit_index /\ edit_index < Len(pages)) =>
                pages'[edit_index' + 1] = pages[edit_index + 1] ]_vars

====
